---- MODULE Spec2Model ----
(***************************************************************************)
(* A model of screenmanager.py: the Textual dashboard over GNU screen.     *)
(*                                                                         *)
(* Text is a sequence of atoms.  An atom is a string that stands for       *)
(* itself: a blank or a tab, a line break, an opening or a closing         *)
(* parenthesis, or a run of other characters ("12345.foo").  pattern_ls    *)
(* can start a match only on white space and can end a group only before   *)
(* white space or a closing parenthesis, so it never splits a run, and the *)
(* text the program sees is the concatenation of the atoms.                *)
(***************************************************************************)
EXTENDS Integers, Sequences, FiniteSets, TLC

VARIABLES
    cwd,        \* the entries os.listdir() returns, with what the checks on each do
    app,        \* the dashboard: constructing, composed, running, exiting, terminated, crashed
    rows,       \* ScreenView's ScreenItem children, in mount order
    log,        \* PopenLog's lines, each the texts of the Labels mounted in it
    executed,   \* the os.popen calls made so far, each with what it gave back
    viewmode,   \* ScreenManager.viewmode
    classes,    \* the CSS classes of MainContainer
    nameInput,  \* PanelTerminalName.value
    cmdInput,   \* PanelCommand.value
    child       \* the multiprocessing.Process started by run_on_newprocess

vars == <<cwd, app, rows, log, executed, viewmode, classes, nameInput, cmdInput, child>>

Min(S) == CHOOSE x \in S : \A y \in S : x <= y
Max(S) == CHOOSE x \in S : \A y \in S : x >= y

----------------------------------------------------------------------------
(* Text *)

NL == "\n"
LP == "("
RP == ")"

\* What \s matches.
IsSpace(c) == c \in {" ", "\t", NL}
\* What . matches (re.compile without DOTALL).
IsDot(c) == c # NL

\* The string a sequence of atoms stands for.
RECURSIVE Join(_)
Join(t) == IF t = <<>> THEN "" ELSE Head(t) \o Join(Tail(t))

\* str.splitlines(): a line break ends a line, one at the end adds no empty line.
RECURSIVE SplitFrom(_, _, _)
SplitFrom(t, i, cur) ==
    IF i > Len(t) THEN (IF cur = <<>> THEN <<>> ELSE <<Join(cur)>>)
    ELSE IF t[i] = NL THEN <<Join(cur)>> \o SplitFrom(t, i + 1, <<>>)
    ELSE SplitFrom(t, i + 1, Append(cur, t[i]))

splitlines(t) == SplitFrom(t, 1, <<>>)

\* text.endswith(os.linesep)
EndsWithLinesep(t) == t # <<>> /\ t[Len(t)] = NL

----------------------------------------------------------------------------
(* pattern_ls = \s+(.+?)\s+\((.+?)\)\s+\((.+?)\) and re.findall             *)

\* The first position at or after p that holds no white space.
FirstNonSpace(t, p) == Min({q \in p..(Len(t) + 1) : q > Len(t) \/ ~IsSpace(t[q])})

\* \s+\( at p: the position of the parenthesis, 0 when it does not match.
\* \s+ is greedy, but what follows it is no white space, so it takes the whole run.
SepParen(t, p) ==
    LET r == FirstNonSpace(t, p)
    IN  IF p <= Len(t) /\ r > p /\ r <= Len(t) /\ t[r] = LP THEN r ELSE 0

\* The positions q of a closing parenthesis that can end a lazy (.+?) opened at p.
Closers(t, p) ==
    {q \in (p + 2)..Len(t) : t[q] = RP /\ \A k \in (p + 1)..(q - 1) : IsDot(t[k])}

\* \((.+?)\) at p: the position of the closing parenthesis, 0 for no match.
\* Lazy: the nearest closing parenthesis with at least one character before it.
Group3(t, p) ==
    IF p <= Len(t) /\ t[p] = LP /\ Closers(t, p) # {} THEN Min(Closers(t, p)) ELSE 0

\* \((.+?)\)\s+\((.+?)\) at p: <<closing parenthesis of the first group,
\* opening and closing parenthesis of the second>>; <<>> for no match.
Group2(t, p) ==
    LET Q == {q \in Closers(t, p) :
                 SepParen(t, q + 1) # 0 /\ Group3(t, SepParen(t, q + 1)) # 0}
    IN  IF p <= Len(t) /\ t[p] = LP /\ Q # {}
        THEN LET q == Min(Q)
                 r == SepParen(t, q + 1)
             IN  <<q, r, Group3(t, r)>>
        ELSE <<>>

\* (.+?)\s+\(...: the ends e of a first group that starts at p.
Group1Ends(t, p) ==
    {e \in p..Len(t) :
        /\ \A k \in p..e : IsDot(t[k])
        /\ SepParen(t, e + 1) # 0
        /\ Group2(t, SepParen(t, e + 1)) # <<>>}

\* The whole pattern at i.  The leading \s+ is greedy: the longest run of
\* white space after which the rest matches; (.+?) is lazy: the shortest.
MatchAt(t, i) ==
    LET S == {p \in (i + 1)..FirstNonSpace(t, i) : Group1Ends(t, p) # {}}
    IN  IF i <= Len(t) /\ IsSpace(t[i]) /\ S # {}
        THEN LET p  == Max(S)
                 e  == Min(Group1Ends(t, p))
                 o2 == SepParen(t, e + 1)
                 g  == Group2(t, o2)
             IN  [ok |-> TRUE,
                  groups |-> <<Join(SubSeq(t, p, e)),
                               Join(SubSeq(t, o2 + 1, g[1] - 1)),
                               Join(SubSeq(t, g[2] + 1, g[3] - 1))>>,
                  end |-> g[3]]
        ELSE [ok |-> FALSE, groups |-> <<>>, end |-> 0]

\* re.findall: the leftmost match from pos on, then on from its end.
RECURSIVE FindallFrom(_, _)
FindallFrom(t, pos) ==
    LET S == {i \in pos..Len(t) : MatchAt(t, i).ok}
    IN  IF S = {} THEN <<>>
        ELSE LET m == MatchAt(t, Min(S))
             IN  <<m.groups>> \o FindallFrom(t, m.end + 1)

findall(t) == FindallFrom(t, 1)

----------------------------------------------------------------------------
(* Panel.compose: the default command *)

MaxDir == 3

\* Names for the entries of a listing, by position.
DirNames == <<"run.sh", "a.out", "notes.txt", "build", "x">>

\* What os.path.isfile and os.access do on an entry: answer, or raise OSError.
CheckResults == {"yes", "no", "err"}

DirEntries(i) == [name : {DirNames[i]}, isfile : CheckResults, xok : CheckResults]

RECURSIVE DirListings(_)
DirListings(n) ==
    IF n = 0 THEN {<<>>}
    ELSE LET S == DirListings(n - 1)
         IN  S \cup {Append(d, e) : d \in {x \in S : Len(x) = n - 1}, e \in DirEntries(n)}

\* os.path.isfile(path) and os.access(path, os.X_OK): `and` does not evaluate
\* its right side when the left one is false.
IsExecutableFile(e) ==
    IF e.isfile = "err" THEN "OSError"
    ELSE IF e.isfile = "no" THEN "False"
    ELSE IF e.xok = "err" THEN "OSError"
    ELSE IF e.xok = "yes" THEN "True" ELSE "False"

RECURSIVE ScanFrom(_, _)

\* A handler that lets the error out of compose.
OnOSErrorPropagate(d, i) == [raised |-> TRUE, command |-> ""]

\* except OSError: pass
OnOSError(d, i) == ScanFrom(d, i + 1)

\* for path in os.listdir(): ... from the i-th entry on.
ScanFrom(d, i) ==
    IF i > Len(d) THEN [raised |-> FALSE, command |-> ""]
    ELSE LET c == IsExecutableFile(d[i])
         IN  IF c = "True" THEN [raised |-> FALSE, command |-> "./" \o d[i].name]
             ELSE IF c = "OSError" THEN OnOSError(d, i)
             ELSE ScanFrom(d, i + 1)

DefaultCommand(d) == ScanFrom(d, 1)

----------------------------------------------------------------------------
(* PopenLog and PopenExec *)

\* PopenLog.newline: a new line is mounted and becomes curline.
newline(L) == Append(L, <<>>)

\* self.curline.mount(Label(text))
MountInCurline(L, text) == [L EXCEPT ![Len(L)] = Append(@, text)]

\* PopenLog.write_command
write_command(L, text) == newline(MountInCurline(MountInCurline(L, "$"), text))

\* for i in lines: self.curline.mount(Label(i)); self.newline()
RECURSIVE WriteLines(_, _)
WriteLines(L, lines) ==
    IF lines = <<>> THEN L
    ELSE WriteLines(newline(MountInCurline(L, Head(lines))), Tail(lines))

\* PopenLog.write
write(L, text) ==
    LET lines == splitlines(text)
    IN  IF lines = <<>> THEN L
        ELSE LET L1 == WriteLines(L, SubSeq(lines, 1, Len(lines) - 1))
                 L2 == MountInCurline(L1, lines[Len(lines)])
             IN  IF EndsWithLinesep(text) THEN newline(L2) ELSE L2

\* What the shell that os.popen starts does with the command: found says whether
\* it found the executable; when it did not, it writes its complaint to stderr,
\* nothing to stdout, and exits 127.
ShellComplaint == <<"sh: 1: screen: not found", NL>>
NotFound == [found |-> FALSE, stdout |-> <<>>, stderr |-> ShellComplaint]
Ran(t) == [found |-> TRUE, stdout |-> t, stderr |-> <<>>]

\* A reading of both streams of the shell.
PopenReadBoth(o) == o.stdout \o o.stderr

\* with os.popen(command) as p: res = p.read()   (the pipe is the shell's stdout)
PopenRead(o) == o.stdout

\* PopenExec.exec: the log after it, the text it returns, whether it raised.
exec(L, command, o) ==
    LET res == PopenRead(o)
    IN  [log |-> write(write_command(L, command), res), res |-> res, raised |-> FALSE]

\* The record of one os.popen call.
Call(command, o, r) ==
    [cmd |-> command, found |-> o.found, stdout |-> o.stdout,
     res |-> r.res, raised |-> r.raised]

----------------------------------------------------------------------------
(* ScreenView, ScreenItem, Panel, ScreenManager *)

MaxExec == 2

NoChild == [cmd |-> "", state |-> "none", afterExit |-> FALSE, via |-> "none"]

\* A clear that removes nothing.
clearNothing(rs) == rs

\* ScreenView.clear
clear(rs) == <<>>

\* ScreenView.add
add(rs, serial, date, info) == Append(rs, [serial |-> serial, date |-> date, info |-> info])

\* for i in re.findall(...): sv.add(*i)
RECURSIVE AddAll(_, _)
AddAll(rs, found) ==
    IF found = <<>> THEN rs
    ELSE AddAll(add(rs, Head(found)[1], Head(found)[2], Head(found)[3]), Tail(found))

\* A removal that takes the first row whatever row was pressed.
removeFirst(rs, i) == Tail(rs)

\* ScreenItem.remove() on the i-th row.
remove(rs, i) == SubSeq(rs, 1, i - 1) \o SubSeq(rs, i + 1, Len(rs))

\* self.app.exit()
AppExit(a) == "exiting"

\* run_on_newprocess, called when the dashboard is in state a: a non-daemonic
\* multiprocessing.Process running os.system(command) is started; start()
\* returns at once.  via names the handler that called (for the properties).
run_on_newprocess(command, a, handler) ==
    [cmd |-> command, state |-> "running", afterExit |-> (a = "exiting"), via |-> handler]

\* A composition that passes the name without its flag.
CreateCommandNoFlag(name, command) ==
    LET c1 == IF name # "" THEN "screen" \o " " \o name ELSE "screen"
    IN  IF command # "" THEN c1 \o " " \o command ELSE c1

\* Panel.on_button_pressed: the command line built from the two inputs.
CreateCommand(name, command) ==
    LET c0 == "screen"
        c1 == IF name # "" THEN c0 \o " -S " \o name ELSE c0
    IN  IF command # "" THEN c1 \o " " \o command ELSE c1

ViewModes == {"SCREENS", "OUTPUT"}

\* A switch that adds the new class and leaves the old one.
SwitchClassesKeepOld(mode, cls) ==
    IF mode = "SCREENS" THEN cls \cup {"viewmode-output"}
    ELSE cls \cup {"viewmode-screens"}

\* action_switch_view: remove_class, then add_class.
SwitchClasses(mode, cls) ==
    IF mode = "SCREENS" THEN (cls \ {"viewmode-screens"}) \cup {"viewmode-output"}
    ELSE IF mode = "OUTPUT" THEN (cls \ {"viewmode-output"}) \cup {"viewmode-screens"}
    ELSE cls

\* A switch that only ever leaves SCREENS.
SwitchModeOneWay(mode) == "OUTPUT"

\* action_switch_view: the new value of viewmode.
SwitchMode(mode) ==
    IF mode = "SCREENS" THEN "OUTPUT" ELSE IF mode = "OUTPUT" THEN "SCREENS" ELSE mode

(* The inputs *)

Header == <<"There", " ", "are", " ", "screens", " ", "on:", NL>>
Footer == <<"2", " ", "Sockets", " ", "in", " ", "/run/screen/S-root.", NL>>
LineFoo == <<"\t", "12345.foo", "\t", "(", "Detached", ")", "\t", "(", "Multi,", " ", "80x24", ")", NL>>
LineBar == <<"\t", "678.bar", "\t", "(", "Attached", ")", "\t", "(", "Multi", ")", NL>>
LineFooAttached == <<"\t", "12345.foo", "\t", "(", "Attached", ")", "\t", "(", "Multi,", " ", "80x24", ")", NL>>
LineBaz == <<"\t", "9.baz", " ", "(", "Detached", ")", " ", "(", "Private", ")", NL>>
NoSockets == <<"No", " ", "Sockets", " ", "found", " ", "in", " ", "/run/screen/S-root.", NL>>

\* What `screen -ls` may print.
LsOutputs ==
    { <<>>,
      NoSockets,
      Header \o LineFoo \o LineBar \o Footer,
      Header \o LineBaz \o LineFooAttached \o Footer }

\* What `screen -X -S <serial> quit` may print.
QuitOutputs == { <<>>, <<"No", " ", "screen", " ", "session", " ", "found.", NL>> }

LsOutcomes == {Ran(t) : t \in LsOutputs} \cup {NotFound}
QuitOutcomes == {Ran(t) : t \in QuitOutputs} \cup {NotFound}

\* What the user may type into the two inputs.
Names == {"", "work"}
Commands == {"", "./run.sh"}

(* The actions *)

\* ScreenManager.compose, Panel.compose and PopenLog.on_mount: the widgets exist.
Compose ==
    /\ app = "constructing"
    /\ LET r == DefaultCommand(cwd)
       IN  /\ app' = IF r.raised THEN "crashed" ELSE "composed"
           /\ cmdInput' = r.command
    /\ classes' = {"viewmode-screens"}
    /\ log' = newline(log)
    /\ UNCHANGED <<cwd, rows, executed, viewmode, nameInput, child>>

\* ScreenManager.action_refresh, given what `screen -ls` does.
action_refresh(o) ==
    LET sv == clear(rows)
        r  == exec(log, "screen -ls", o)
    IN  /\ rows' = AddAll(sv, findall(r.res))
        /\ log' = r.log
        /\ executed' = Append(executed, Call("screen -ls", o, r))

\* ScreenManager.on_mount
OnMount(o) ==
    /\ app = "composed"
    /\ action_refresh(o)
    /\ app' = "running"
    /\ UNCHANGED <<cwd, viewmode, classes, nameInput, cmdInput, child>>

\* The key r.
Refresh(o) ==
    /\ app = "running"
    /\ Len(executed) < MaxExec
    /\ action_refresh(o)
    /\ UNCHANGED <<cwd, app, viewmode, classes, nameInput, cmdInput, child>>

\* ScreenItem.on_button_pressed, screenitem-terminal, on the i-th row.
Terminate(i, o) ==
    /\ app = "running"
    /\ Len(executed) < MaxExec
    /\ i \in DOMAIN rows
    /\ LET command == "screen -X -S " \o rows[i].serial \o " quit"
           r == exec(log, command, o)
       IN  /\ log' = r.log
           /\ executed' = Append(executed, Call(command, o, r))
           /\ rows' = remove(rows, i)
    /\ UNCHANGED <<cwd, app, viewmode, classes, nameInput, cmdInput, child>>

\* ScreenItem.on_button_pressed, screenitem-into, on the i-th row.
Attach(i) ==
    /\ app = "running"
    /\ i \in DOMAIN rows
    /\ LET a == AppExit(app)
       IN  /\ app' = a
           /\ child' = run_on_newprocess("screen -r " \o rows[i].serial, a, "attach")
    /\ UNCHANGED <<cwd, rows, log, executed, viewmode, classes, nameInput, cmdInput>>

\* Panel.on_button_pressed, panel-add.
Create ==
    /\ app = "running"
    /\ LET a == AppExit(app)
       IN  /\ app' = a
           /\ child' = run_on_newprocess(CreateCommand(nameInput, cmdInput), a, "create")
    /\ UNCHANGED <<cwd, rows, log, executed, viewmode, classes, nameInput, cmdInput>>

\* The user edits PanelTerminalName.
EditName(n) ==
    /\ app = "running"
    /\ n # nameInput
    /\ nameInput' = n
    /\ UNCHANGED <<cwd, app, rows, log, executed, viewmode, classes, cmdInput, child>>

\* The user edits PanelCommand.
EditCommand(c) ==
    /\ app = "running"
    /\ c # cmdInput
    /\ cmdInput' = c
    /\ UNCHANGED <<cwd, app, rows, log, executed, viewmode, classes, nameInput, child>>

\* ScreenManager.action_switch_view
action_switch_view ==
    /\ app = "running"
    /\ viewmode' = SwitchMode(viewmode)
    /\ classes' = SwitchClasses(viewmode, classes)
    /\ UNCHANGED <<cwd, app, rows, log, executed, nameInput, cmdInput, child>>

\* The key q: App.action_quit.
Quit ==
    /\ app = "running"
    /\ app' = "exiting"
    /\ UNCHANGED <<cwd, rows, log, executed, viewmode, classes, nameInput, cmdInput, child>>

\* The command run by os.system in the child process ends.
ChildFinish ==
    /\ child.state = "running"
    /\ child' = [child EXCEPT !.state = "finished"]
    /\ UNCHANGED <<cwd, app, rows, log, executed, viewmode, classes, nameInput, cmdInput>>

\* An interpreter that ends without joining its children.
ProcessExitNoJoin ==
    /\ app = "exiting"
    /\ app' = "terminated"
    /\ UNCHANGED <<cwd, rows, log, executed, viewmode, classes, nameInput, cmdInput, child>>

\* app.run() returns and the interpreter ends.  A multiprocessing.Process is
\* non-daemonic unless daemon=True is given, and multiprocessing joins the
\* non-daemonic children at interpreter exit: the process ends after its child.
ProcessExit ==
    /\ app = "exiting"
    /\ child.state # "running"
    /\ app' = "terminated"
    /\ UNCHANGED <<cwd, rows, log, executed, viewmode, classes, nameInput, cmdInput, child>>

\* The directories the dashboard is started in.
MainDirs ==
    { <<>>,
      <<[name |-> "run.sh", isfile |-> "err", xok |-> "yes"],
        [name |-> "a.out", isfile |-> "yes", xok |-> "yes"]>> }

Constructed ==
    /\ app = "constructing"
    /\ rows = <<>>
    /\ log = <<>>
    /\ executed = <<>>
    /\ viewmode = "SCREENS"
    /\ classes = {}
    /\ nameInput = ""
    /\ cmdInput = ""
    /\ child = NoChild

Init == cwd \in MainDirs /\ Constructed

Next ==
    \/ Compose
    \/ \E o \in LsOutcomes : OnMount(o)
    \/ \E o \in LsOutcomes : Refresh(o)
    \/ \E i \in DOMAIN rows, o \in QuitOutcomes : Terminate(i, o)
    \/ \E i \in DOMAIN rows : Attach(i)
    \/ Create
    \/ \E n \in Names : EditName(n)
    \/ \E c \in Commands : EditCommand(c)
    \/ action_switch_view
    \/ Quit
    \/ ChildFinish
    \/ ProcessExit

Spec == Init /\ [][Next]_vars

----------------------------------------------------------------------------
(* The default command alone: every working directory of up to MaxDir entries *)

InitScan == cwd \in DirListings(MaxDir) /\ Constructed

NextScan == Compose

SpecScan == InitScan /\ [][NextScan]_vars

----------------------------------------------------------------------------
(* The parse alone: the first refresh on every listing of up to MaxLines lines *)

MaxLines == 3

ErrorBanner == <<"screen:", " ", "error", " ", "(", "code", " ", "1", ")", NL>>
HintBanner == <<" ", "(", "try", " ", "again", ")", NL>>

ListingLines == {LineFoo, LineBar, Header, NoSockets, ErrorBanner, HintBanner, <<NL>>}

RECURSIVE ListingTexts(_)
ListingTexts(n) ==
    IF n = 0 THEN {<<>>}
    ELSE {l \o t : l \in ListingLines, t \in ListingTexts(n - 1)} \cup ListingTexts(n - 1)

InitParse == cwd = <<>> /\ Constructed

NextParse ==
    \/ Compose
    \/ \E t \in ListingTexts(MaxLines) : OnMount(Ran(t))

SpecParse == InitParse /\ [][NextParse]_vars

----------------------------------------------------------------------------
(* What the properties are stated with *)

Row(serial, date, info) == [serial |-> serial, date |-> date, info |-> info]

Last(s) == s[Len(s)]

\* The lines of a text, each a sequence of atoms without its line break.
RECURSIVE AtomLinesFrom(_, _, _)
AtomLinesFrom(t, i, cur) ==
    IF i > Len(t) THEN (IF cur = <<>> THEN <<>> ELSE <<cur>>)
    ELSE IF t[i] = NL THEN <<cur>> \o AtomLinesFrom(t, i + 1, <<>>)
    ELSE AtomLinesFrom(t, i + 1, Append(cur, t[i]))

AtomLines(t) == AtomLinesFrom(t, 1, <<>>)

\* The first closing parenthesis after p, 0 when there is none.
NextCloser(l, p) ==
    LET Q == {q \in (p + 1)..Len(l) : l[q] = RP} IN IF Q = {} THEN 0 ELSE Min(Q)

\* The expected shape of a line: white space, a serial token, white space, a
\* parenthesized group, white space, a second parenthesized group, the end.
\* <<token, opening and closing parenthesis of each group>>, <<>> for another shape.
Shape(l) ==
    LET p1 == FirstNonSpace(l, 1)
        p2 == FirstNonSpace(l, p1 + 1)
        c1 == NextCloser(l, p2)
        p3 == FirstNonSpace(l, c1 + 1)
        c2 == NextCloser(l, p3)
    IN  IF /\ 1 < p1 /\ p1 <= Len(l) /\ l[p1] \notin {LP, RP}
           /\ p1 + 1 < p2 /\ p2 <= Len(l) /\ l[p2] = LP
           /\ p2 + 1 < c1 /\ \A k \in (p2 + 1)..(c1 - 1) : l[k] # LP
           /\ c1 + 1 < p3 /\ p3 <= Len(l) /\ l[p3] = LP
           /\ p3 + 1 < c2 /\ \A k \in (p3 + 1)..(c2 - 1) : l[k] # LP
           /\ c2 = Len(l)
        THEN <<p1, p2, c1, p3, c2>>
        ELSE <<>>

WellFormed(l) == Shape(l) # <<>>

\* The record a well-formed line stands for.
LineRecord(l) ==
    LET s == Shape(l)
    IN  Row(l[s[1]], Join(SubSeq(l, s[2] + 1, s[3] - 1)), Join(SubSeq(l, s[4] + 1, s[5] - 1)))

RECURSIVE LineRecords(_)
LineRecords(ls) ==
    IF ls = <<>> THEN <<>>
    ELSE (IF WellFormed(Head(ls)) THEN <<LineRecord(Head(ls))>> ELSE <<>>)
         \o LineRecords(Tail(ls))

\* A text of well-formed lines and of banner lines in none of which,
\* taken alone, the pattern matches.
ListingOfLinesAndBanners(t) ==
    \A k \in DOMAIN AtomLines(t) :
        WellFormed(AtomLines(t)[k]) \/ findall(AtomLines(t)[k] \o <<NL>>) = <<>>

\* The rows each of the outputs of `screen -ls` stands for.
LsExpected(t) ==
    CASE t = Header \o LineFoo \o LineBar \o Footer ->
            <<Row("12345.foo", "Detached", "Multi, 80x24"), Row("678.bar", "Attached", "Multi")>>
      [] t = Header \o LineBaz \o LineFooAttached \o Footer ->
            <<Row("9.baz", "Detached", "Private"), Row("12345.foo", "Attached", "Multi, 80x24")>>
      [] OTHER -> <<>>

----------------------------------------------------------------------------
(* The properties *)

\* C1: after a refresh the rows of ScreenView are exactly the records of the
\* output of that refresh's `screen -ls`, in output order, and no row of an
\* earlier output is left, whether or not the outputs share serials.
C1_RefreshReplaces ==
    (executed # <<>> /\ Last(executed).cmd = "screen -ls")
        => rows = LsExpected(Last(executed).stdout)

\* Two refreshes with different outputs that share the serial 12345.foo.
C1_Witness ==
    /\ Len(executed) = 2
    /\ executed[1].cmd = "screen -ls" /\ executed[2].cmd = "screen -ls"
    /\ executed[1].stdout = Header \o LineFoo \o LineBar \o Footer
    /\ executed[2].stdout = Header \o LineBaz \o LineFooAttached \o Footer

\* C2: for a text of N well-formed lines separated by banner lines that do not
\* match, the parse gives the N records of the well-formed lines, in line
\* order, each field verbatim.
C2_ParseWellFormed ==
    (app = "running" /\ ListingOfLinesAndBanners(executed[1].stdout))
        => rows = LineRecords(AtomLines(executed[1].stdout))

\* C3: for a text with no line of the expected shape the parse gives no
\* record and raises nothing, and the refresh leaves ScreenView without rows.
C3_ParseTolerant ==
    (/\ app = "running"
     /\ ListingOfLinesAndBanners(executed[1].stdout)
     /\ \A k \in DOMAIN AtomLines(executed[1].stdout) :
            ~WellFormed(AtomLines(executed[1].stdout)[k]))
        => (rows = <<>> /\ ~executed[1].raised)

\* The command line each pair of inputs is to give.
CreateExpected(name, command) ==
    CASE name = ""     /\ command = ""         -> "screen"
      [] name = "work" /\ command = ""         -> "screen -S work"
      [] name = ""     /\ command = "./run.sh" -> "screen ./run.sh"
      [] name = "work" /\ command = "./run.sh" -> "screen -S work ./run.sh"
      [] name = ""     /\ command = "./a.out"  -> "screen ./a.out"
      [] name = "work" /\ command = "./a.out"  -> "screen -S work ./a.out"

\* C4: the command line spawned on create is `screen`, then ` -S <name>` if and
\* only if the name is not empty, then ` <command>` if and only if the command
\* is not empty.
C4_CreateCommand ==
    child.via = "create" => child.cmd = CreateExpected(nameInput, cmdInput)

C4_Witness ==
    child.via = "create" /\ nameInput = "work" /\ cmdInput = "./run.sh"

\* The entries that are accessible regular files with execute permission.
Executables(d) == {i \in DOMAIN d : d[i].isfile = "yes" /\ d[i].xok = "yes"}

\* C5: the scan of Panel.compose raises nothing whatever entries raise, and the
\* default command is ./<entry> for the first entry in listing order that is an
\* accessible regular file with execute permission, the empty string without one.
C5_DefaultCommand ==
    app # "constructing" =>
        /\ app = "composed"
        /\ cmdInput = IF Executables(cwd) = {} THEN ""
                      ELSE "./" \o cwd[Min(Executables(cwd))].name

\* Three entries, the first two raise, the third is an executable file.
C5_Witness ==
    /\ app = "composed"
    /\ Len(cwd) = 3
    /\ cwd[1].isfile = "err"
    /\ cwd[2].isfile = "yes" /\ cwd[2].xok = "err"
    /\ Executables(cwd) = {3}

\* What the caller of exec sees of a call.
Observed(e) == <<e.res, e.raised>>

\* What the caller sees of a command that ran and printed nothing.
ObservedOfEmptyRun == LET r == exec(<<<<>>>>, "screen -ls", Ran(<<>>)) IN <<r.res, r.raised>>

C7_Terminate ==
    [][\A i \in DOMAIN rows : \A o \in QuitOutcomes :
          Terminate(i, o) =>
            /\ Len(executed') = Len(executed) + 1
            /\ SubSeq(executed', 1, Len(executed)) = executed
            /\ Last(executed').cmd = "screen -X -S " \o rows[i].serial \o " quit"
            /\ (rows[i].serial = "12345.foo"
                    => Last(executed').cmd = "screen -X -S 12345.foo quit")
            /\ Len(rows') = Len(rows) - 1
            /\ \A k \in 1..(i - 1) : rows'[k] = rows[k]
            /\ \A k \in i..Len(rows') : rows'[k] = rows[k + 1]]_vars

\* The second of two rows was terminated by a command that was not found.
C7_Witness ==
    /\ Len(executed) = 2
    /\ executed[1].stdout = Header \o LineBaz \o LineFooAttached \o Footer
    /\ executed[2].cmd = "screen -X -S 12345.foo quit"
    /\ ~executed[2].found
    /\ rows = <<Row("9.baz", "Detached", "Private")>>

C9_ViewMode ==
    /\ viewmode = "SCREENS"
    /\ [][/\ action_switch_view =>
                /\ viewmode' \in ViewModes \ {viewmode}
                /\ executed' = executed /\ rows' = rows /\ log' = log
          /\ viewmode' # viewmode => action_switch_view
          /\ \/ viewmode' = viewmode
             \/ ~ \/ \E o \in LsOutcomes : Refresh(o) \/ OnMount(o)
                  \/ \E i \in DOMAIN rows : \E o \in QuitOutcomes : Terminate(i, o)]_vars

\* The view is OUTPUT with rows shown and two commands run.
C9_Witness ==
    viewmode = "OUTPUT" /\ rows # <<>> /\ Len(executed) = 2

ModeClasses == {"viewmode-screens", "viewmode-output"}

\* C10: MainContainer carries exactly one of viewmode-screens and
\* viewmode-output: viewmode-screens when the mode is SCREENS, viewmode-output
\* when it is OUTPUT.
C10_ModeClass ==
    app # "constructing" =>
        /\ Cardinality(classes \cap ModeClasses) = 1
        /\ ("viewmode-screens" \in classes <=> viewmode = "SCREENS")
        /\ ("viewmode-output" \in classes <=> viewmode = "OUTPUT")

\* The view is OUTPUT and a terminate has run.
C10_Witness ==
    /\ viewmode = "OUTPUT"
    /\ Len(executed) = 2
    /\ Last(executed).cmd # "screen -ls"

====
